---- MODULE Spec2Model ----
(***************************************************************************)
(* Model of src/ring_network.py: create_network (the lattice builder),     *)
(* show_node_counts, prune_markers_minimal (the ring collapser) and        *)
(* construct_net.                                                          *)
(*                                                                         *)
(* Numbers.  Data values, marker values and the window size are reals in   *)
(* the program.  The model takes them on the dyadic grid of step 2^-14     *)
(* (about 0.000061): a model integer k stands for the real k / 2^14.  On   *)
(* that grid, for the small magnitudes used here, every float operation of *)
(* the program (subtraction, the product window_size * i, the sum with     *)
(* min_value, the quotient followed by int()) is exact or truncates to the *)
(* same integer as the exact quotient, so integer arithmetic models it.    *)
(* The grid step is below 0.0001, the resolution of the '.4f' format used  *)
(* for marker names, so the format is modelled by what it does: rounding.  *)
(* Weights are taken as integers (sums of them are then exact as well).    *)
(***************************************************************************)
EXTENDS Integers, Sequences, FiniteSets, TLC

VARIABLES data, ncols, weights, window_size, pc, G, G_pruned, log, counts

vars == <<data, ncols, weights, window_size, pc, G, G_pruned, log, counts>>

(* ------------------------------ bounds -------------------------------- *)
\* valid inputs (Spec): matrices of at most MaxCells cells with values on
\* the grid points 0..4, one or two columns, window sizes of 1 or 2 grid
\* steps (the smaller one is below the 0.0001 of the marker names, the larger
\* one above it) and weights of 1 or 2
MaxCells == 4
DataValues == 0..4
ColumnCounts == {1, 2}
WindowSizes == {1, 2}
WeightValues == {1, 2}
\* arbitrary inputs, the invalid ones included (SpecAny)
AnyMaxRows == 2
AnyMaxCols == 2
AnyMaxValue == 2
AnyMaxLen == 3

(* --------------------------- number helpers --------------------------- *)
Abs(x) == IF x < 0 THEN -x ELSE x

\* grid points per unit: a model integer k is the real k / GridPerUnit
GridPerUnit == 2^14

\* the '.4f' of the marker names keeps 4 decimals
FmtPerUnit == 10^4

\* Python's int(a / b) for b # 0: the quotient truncated toward zero.
TruncDiv(a, b) ==
    IF (a >= 0) = (b > 0) THEN Abs(a) \div Abs(b) ELSE -(Abs(a) \div Abs(b))

\* The magnitude printed by '.4f' for the grid value of magnitude a >= 0, in
\* units of 0.0001: the nearest integer to a * 10^4 / 2^14, ties to even.
RoundMag(a) ==
    LET q == (a * FmtPerUnit) \div GridPerUnit
        r == (a * FmtPerUnit) % GridPerUnit
    IN  IF 2 * r < GridPerUnit THEN q
        ELSE IF 2 * r > GridPerUnit THEN q + 1
        ELSE IF q % 2 = 0 THEN q ELSE q + 1

(* ------------------------------ node ids ------------------------------ *)
\* A data point node is the int i.
RowNode(i) == <<"row", i, 0, 0>>

\* A marker node is the string f'{dim},{value:.4f}': the dimension, the sign
\* character ('-' is printed for every negative value, "-0.0000" included)
\* and the rounded magnitude.
MarkerName(dim, value) ==
    <<"marker", dim, IF value < 0 THEN 1 ELSE 0, RoundMag(Abs(value))>>

\* isinstance(n, int)
IsInt(n) == n[1] = "row"

(* --------------------------- networkx.Graph --------------------------- *)
\* nodes: the node dict in insertion order, each entry with its attributes;
\* edges: the edges in insertion order, each with its weight.
EmptyGraph == [nodes |-> <<>>, edges |-> <<>>]

\* TRUE of every graph.  The loops below test it on the graph they carry, which
\* makes TLC build the graph at each iteration instead of nesting the pending
\* updates of the whole loop.
Built(g) == Len(g.nodes) >= 0

NoAttrs == [marker |-> FALSE, dim |-> -1, value |-> 0]

HasNode(g, n) == \E i \in 1..Len(g.nodes) : g.nodes[i].id = n

NodeAt(g, n) == CHOOSE i \in 1..Len(g.nodes) : g.nodes[i].id = n

\* G.add_node(n): a new node gets an empty attribute dict, an old one is kept
AddPlainNode(g, n) ==
    IF HasNode(g, n) THEN g
    ELSE [g EXCEPT !.nodes = Append(@, [id |-> n, attrs |-> NoAttrs])]

\* G.add_node(n, marker=True, dim=dim, value=value): the attributes of a node
\* already present are overwritten
AddMarkerNode(g, n, dim, value) ==
    LET a == [marker |-> TRUE, dim |-> dim, value |-> value]
    IN  IF HasNode(g, n) THEN [g EXCEPT !.nodes[NodeAt(g, n)].attrs = a]
        ELSE [g EXCEPT !.nodes = Append(@, [id |-> n, attrs |-> a])]

SameEdge(e, u, v) == (e.u = u /\ e.v = v) \/ (e.u = v /\ e.v = u)

\* G.has_edge(u, v)
HasEdge(g, u, v) == \E i \in 1..Len(g.edges) : SameEdge(g.edges[i], u, v)

EdgeAt(g, u, v) == CHOOSE i \in 1..Len(g.edges) : SameEdge(g.edges[i], u, v)

\* G[u][v]['weight']
EdgeWeight(g, u, v) == g.edges[EdgeAt(g, u, v)].weight

\* G.add_edge(u, v, weight=w): missing end nodes are added, the weight of an
\* edge already present is overwritten
AddEdge(g, u, v, w) ==
    LET g1 == AddPlainNode(AddPlainNode(g, u), v)
    IN  IF HasEdge(g1, u, v)
        THEN [g1 EXCEPT !.edges[EdgeAt(g1, u, v)].weight = w]
        ELSE [g1 EXCEPT !.edges = Append(@, [u |-> u, v |-> v, weight |-> w])]

RECURSIVE NeighborsFrom(_, _, _)
NeighborsFrom(g, n, i) ==
    IF i > Len(g.edges) THEN <<>>
    ELSE LET e == g.edges[i]
             rest == NeighborsFrom(g, n, i + 1)
         IN  IF e.u = n THEN <<e.v>> \o rest
             ELSE IF e.v = n THEN <<e.u>> \o rest
             ELSE rest

\* list(G.neighbors(n)): the adjacency dict of n, in insertion order
Neighbors(g, n) == NeighborsFrom(g, n, 1)

(* --------------------------- create_network --------------------------- *)
NumRows(d) == Len(d)

RECURSIVE AddRowNodes(_, _, _)
AddRowNodes(g, i, R) ==
    IF Built(g) /\ i < R
    THEN AddRowNodes(AddPlainNode(g, RowNode(i)), i + 1, R)
    ELSE g

RECURSIVE ColumnMax(_, _, _)
ColumnMax(d, dim, r) ==
    IF r = 1 THEN d[1][dim + 1]
    ELSE LET m == ColumnMax(d, dim, r - 1)
         IN  IF d[r][dim + 1] > m THEN d[r][dim + 1] ELSE m

RECURSIVE ColumnMin(_, _, _)
ColumnMin(d, dim, r) ==
    IF r = 1 THEN d[1][dim + 1]
    ELSE LET m == ColumnMin(d, dim, r - 1)
         IN  IF d[r][dim + 1] < m THEN d[r][dim + 1] ELSE m

MaxOf(d, dim) == ColumnMax(d, dim, NumRows(d))
MinOf(d, dim) == ColumnMin(d, dim, NumRows(d))

\* mutant of BinCount: the + 1 forgotten
BinCountNoExtra(max_value, min_value, ws) == TruncDiv(max_value - min_value, ws)

\* n = int((max_value - min_value) / window_size) + 1
BinCount(max_value, min_value, ws) == TruncDiv(max_value - min_value, ws) + 1

\* markers = [window_size * i + min_value for i in range(n + 1)], as a
\* sequence: markers[i] of the program is Markers(...)[i + 1]
Markers(min_value, ws, n) ==
    IF n + 1 <= 0 THEN <<>>
    ELSE [k \in 1..(n + 1) |-> ws * (k - 1) + min_value]

\* mutant of BinIndex: the nearest marker instead of the lower one
BinIndexNearest(point_value, min_value, ws) ==
    TruncDiv(2 * (point_value - min_value) + ws, 2 * ws)

\* mutant of BinIndex: the upper marker of the bin instead of the lower one
BinIndexUpper(point_value, min_value, ws) ==
    TruncDiv(point_value - min_value, ws) + 1

\* int((point_value - min_value) / window_size)
BinIndex(point_value, min_value, ws) == TruncDiv(point_value - min_value, ws)

\* markers[i] of a Python list: a negative i counts from the end, and an i
\* outside -len..len-1 raises IndexError
ListIndexOk(markers, i) == -Len(markers) <= i /\ i < Len(markers)
ListGet(markers, i) ==
    IF i >= 0 THEN markers[i + 1] ELSE markers[Len(markers) + i + 1]

\* lines 23-25: the chain of markers 1..n
RECURSIVE AddChain(_, _, _, _, _)
AddChain(g, dim, markers, w, i) ==
    IF ~Built(g) \/ i > Len(markers) - 1 THEN g
    ELSE LET g1 == AddMarkerNode(g, MarkerName(dim, markers[i + 1]),
                                 dim, markers[i + 1])
             g2 == AddEdge(g1, MarkerName(dim, markers[i]),
                           MarkerName(dim, markers[i + 1]), w)
         IN  AddChain(g2, dim, markers, w, i + 1)

\* lines 28-31: one assignment edge per data point
RECURSIVE AssignRows(_, _, _, _, _, _, _, _)
AssignRows(g, d, dim, markers, w, min_value, ws, i) ==
    IF ~Built(g) \/ i >= NumRows(d) THEN [G |-> g, raised |-> FALSE]
    ELSE LET idx == BinIndex(d[i + 1][dim + 1], min_value, ws)
         IN  IF ~ListIndexOk(markers, idx) THEN [G |-> g, raised |-> TRUE]
             ELSE AssignRows(
                      AddEdge(g, RowNode(i),
                              MarkerName(dim, ListGet(markers, idx)), w),
                      d, dim, markers, w, min_value, ws, i + 1)

\* lines 11-31: the dimensions dim..ncols-1; a raise ends the function with
\* the graph as it was built so far (a local of the call that is lost)
RECURSIVE AddDimensions(_, _, _, _, _, _)
AddDimensions(g, d, nc, wts, ws, dim) ==
    IF ~Built(g) \/ dim >= nc THEN [G |-> g, raised |-> FALSE]
    ELSE IF ~ListIndexOk(wts, dim) THEN [G |-> g, raised |-> TRUE]
    ELSE IF NumRows(d) = 0 THEN [G |-> g, raised |-> TRUE]
    ELSE IF ws = 0 THEN [G |-> g, raised |-> TRUE]
    ELSE LET weight == ListGet(wts, dim)
             max_value == MaxOf(d, dim)
             min_value == MinOf(d, dim)
             n == BinCount(max_value, min_value, ws)
             markers == Markers(min_value, ws, n)
         IN  IF Len(markers) = 0 THEN [G |-> g, raised |-> TRUE]
             ELSE LET g1 == AddMarkerNode(g, MarkerName(dim, markers[1]),
                                          dim, markers[1])
                      g2 == AddChain(g1, dim, markers, weight, 1)
                      st == AssignRows(g2, d, dim, markers, weight,
                                       min_value, ws, 0)
                  IN  IF st.raised THEN st
                      ELSE AddDimensions(st.G, d, nc, wts, ws, dim + 1)

create_network(d, nc, wts, ws) ==
    AddDimensions(AddRowNodes(EmptyGraph, 0, NumRows(d)), d, nc, wts, ws, 0)

(* --------------------------- show_node_counts ------------------------- *)
NoCounts == [data_nodes |-> -1, marker_nodes |-> -1, markers_by_dim |-> <<>>]

show_node_counts(g) ==
    LET idx == 1..Len(g.nodes)
        mk == {i \in idx : g.nodes[i].attrs.marker}
        dims == {g.nodes[i].attrs.dim : i \in mk}
    IN  [data_nodes |-> Cardinality(idx \ mk),
         marker_nodes |-> Cardinality(mk),
         markers_by_dim |->
             [dm \in dims |->
                 Cardinality({i \in mk : g.nodes[i].attrs.dim = dm})]]

(* ------------------------ prune_markers_minimal ----------------------- *)
\* mutant of AddDataNodes: the isinstance filter forgotten
RECURSIVE AddAllNodes(_, _, _)
AddAllNodes(gp, g, i) ==
    IF ~Built(gp) \/ i > Len(g.nodes) THEN gp
    ELSE AddAllNodes(AddPlainNode(gp, g.nodes[i].id), g, i + 1)

\* lines 91-93: the data point nodes, in node order
RECURSIVE AddDataNodes(_, _, _)
AddDataNodes(gp, g, i) ==
    IF ~Built(gp) \/ i > Len(g.nodes) THEN gp
    ELSE AddDataNodes(IF IsInt(g.nodes[i].id)
                      THEN AddPlainNode(gp, g.nodes[i].id) ELSE gp,
                      g, i + 1)

\* lines 96-99: the keys of markers_by_dim, in the order of their first marker
RECURSIVE DimsFrom(_, _, _)
DimsFrom(g, i, seen) ==
    IF i > Len(g.nodes) THEN <<>>
    ELSE LET a == g.nodes[i].attrs
         IN  IF a.marker /\ a.dim \notin seen
             THEN <<a.dim>> \o DimsFrom(g, i + 1, seen \cup {a.dim})
             ELSE DimsFrom(g, i + 1, seen)

MarkerDims(g) == DimsFrom(g, 1, {})

\* markers_by_dim[dim] before the sort: (name, value) in node order
MarkersOfDim(g, dim) ==
    LET in_dim(e) == e.attrs.marker /\ e.attrs.dim = dim
        pair(e) == [name |-> e.id, value |-> e.attrs.value]
        sel == SelectSeq(g.nodes, in_dim)
    IN  [i \in 1..Len(sel) |-> pair(sel[i])]

\* list.sort(key=value) is stable: x goes after every entry not above it
RECURSIVE InsertByValue(_, _)
InsertByValue(s, x) ==
    IF s = <<>> THEN <<x>>
    ELSE IF s[Len(s)].value <= x.value THEN Append(s, x)
    ELSE Append(InsertByValue(SubSeq(s, 1, Len(s) - 1), x), s[Len(s)])

RECURSIVE SortByValue(_)
SortByValue(s) ==
    IF s = <<>> THEN <<>>
    ELSE InsertByValue(SortByValue(SubSeq(s, 1, Len(s) - 1)), s[Len(s)])

\* [n for n in G.neighbors(marker_name) if isinstance(n, int)]
IntNeighbors(g, marker_name) == SelectSeq(Neighbors(g, marker_name), IsInt)

\* mutant of Accumulate: the weight of an edge already present is replaced
AccumulateOverwrite(gp, u, v, w) == AddEdge(gp, u, v, w)

\* lines 121-124 and 136-139: add the weight to the edge, or create it

Accumulate(gp, u, v, w) ==
    IF HasEdge(gp, u, v)
    THEN [gp EXCEPT !.edges[EdgeAt(gp, u, v)].weight = @ + w]
    ELSE AddEdge(gp, u, v, w)

\* One accumulation of the collapser, with the record of it kept in log.
Step(st, kind, dim, marker, u, v, w) ==
    [G |-> Accumulate(st.G, u, v, w),
     log |-> Append(st.log, [kind |-> kind, dim |-> dim, marker |-> marker,
                             u |-> u, v |-> v, weight |-> w])]

\* mutant of RingSteps: a path, the closing step back to the first row left out
RECURSIVE RingStepsOpen(_, _, _, _, _, _)
RingStepsOpen(st, dim, marker, neighbors, w, i) ==
    IF ~Built(st.G) \/ i >= Len(neighbors) - 1 THEN st
    ELSE RingStepsOpen(Step(st, "ring", dim, marker, neighbors[i + 1],
                            neighbors[i + 2], w),
                       dim, marker, neighbors, w, i + 1)

\* mutant of RingSteps: one step too many, range(len(neighbors) + 1)
RECURSIVE RingStepsExtra(_, _, _, _, _, _)
RingStepsExtra(st, dim, marker, neighbors, w, i) ==
    IF ~Built(st.G) \/ i >= Len(neighbors) + 1 THEN st
    ELSE RingStepsExtra(Step(st, "ring", dim, marker,
                             neighbors[(i % Len(neighbors)) + 1],
                             neighbors[((i + 1) % Len(neighbors)) + 1], w),
                        dim, marker, neighbors, w, i + 1)

\* mutant of RingSteps: a step from a row to itself is left out
RECURSIVE RingStepsNoLoop(_, _, _, _, _, _)
RingStepsNoLoop(st, dim, marker, neighbors, w, i) ==
    IF ~Built(st.G) \/ i >= Len(neighbors) THEN st
    ELSE LET node1 == neighbors[i + 1]
             node2 == neighbors[((i + 1) % Len(neighbors)) + 1]
         IN  RingStepsNoLoop(IF node1 = node2 THEN st
                             ELSE Step(st, "ring", dim, marker, node1, node2, w),
                             dim, marker, neighbors, w, i + 1)

\* lines 117-124: the ring of one marker, i = 0..len(neighbors)-1
RECURSIVE RingSteps(_, _, _, _, _, _)
RingSteps(st, dim, marker, neighbors, w, i) ==
    IF ~Built(st.G) \/ i >= Len(neighbors) THEN st
    ELSE RingSteps(Step(st, "ring", dim, marker, neighbors[i + 1],
                        neighbors[((i + 1) % Len(neighbors)) + 1], w),
                   dim, marker, neighbors, w, i + 1)

\* mutant of BridgeStep: no bridge to a next ring of a single row
BridgeStepStrict(st, g, dim, markers, marker_idx, neighbors, w) ==
    IF marker_idx < Len(markers) - 1
    THEN LET next_neighbors == IntNeighbors(g, markers[marker_idx + 2].name)
         IN  IF Len(next_neighbors) > 1
             THEN Step(st, "bridge", dim, markers[marker_idx + 1].name,
                       neighbors[1], next_neighbors[1], w)
             ELSE st
    ELSE st

\* mutant of BridgeStep: the bridge leaves from the last row of the ring
BridgeStepLast(st, g, dim, markers, marker_idx, neighbors, w) ==
    IF marker_idx < Len(markers) - 1
    THEN LET next_neighbors == IntNeighbors(g, markers[marker_idx + 2].name)
         IN  IF Len(next_neighbors) > 0
             THEN Step(st, "bridge", dim, markers[marker_idx + 1].name,
                       neighbors[Len(neighbors)], next_neighbors[1], w)
             ELSE st
    ELSE st

\* lines 127-139: the one edge to the next ring
BridgeStep(st, g, dim, markers, marker_idx, neighbors, w) ==
    IF marker_idx < Len(markers) - 1
    THEN LET next_neighbors == IntNeighbors(g, markers[marker_idx + 2].name)
         IN  IF Len(next_neighbors) > 0
             THEN Step(st, "bridge", dim, markers[marker_idx + 1].name,
                       neighbors[1], next_neighbors[1], w)
             ELSE st
    ELSE st

\* lines 107-139: the markers marker_idx.. of one dimension
RECURSIVE PruneMarkers(_, _, _, _, _)
PruneMarkers(st, g, dim, markers, marker_idx) ==
    IF ~Built(st.G) \/ marker_idx >= Len(markers) THEN st
    ELSE LET marker_name == markers[marker_idx + 1].name
             neighbors == IntNeighbors(g, marker_name)
         IN  IF Len(neighbors) = 0
             THEN PruneMarkers(st, g, dim, markers, marker_idx + 1)
             ELSE LET weight == EdgeWeight(g, marker_name, neighbors[1])
                      st1 == RingSteps(st, dim, marker_name, neighbors,
                                       weight, 0)
                      st2 == BridgeStep(st1, g, dim, markers, marker_idx,
                                        neighbors, weight)
                  IN  PruneMarkers(st2, g, dim, markers, marker_idx + 1)

\* lines 105-139: the dimensions dims[k..]
RECURSIVE PruneDims(_, _, _, _)
PruneDims(st, g, dims, k) ==
    IF ~Built(st.G) \/ k > Len(dims) THEN st
    ELSE PruneDims(PruneMarkers(st, g, dims[k],
                                SortByValue(MarkersOfDim(g, dims[k])), 0),
                   g, dims, k + 1)

\* The reduced graph (G) and the accumulations that built it (log).
prune_markers_minimal(g) ==
    PruneDims([G |-> AddDataNodes(EmptyGraph, g, 1), log |-> <<>>],
              g, MarkerDims(g), 1)

(* ------------------------------ the inputs ---------------------------- *)
SeqsUpTo(S, n) == UNION {[1..k -> S] : k \in 0..n}

\* the preconditions of create_network (spec 4.1, 7)
ValidInput ==
    /\ NumRows(data) >= 1
    /\ Len(weights) = ncols
    /\ window_size > 0
    /\ \A k \in 1..Len(weights) : weights[k] > 0

TypeStart ==
    /\ pc = "start"
    /\ G = EmptyGraph
    /\ G_pruned = EmptyGraph
    /\ log = <<>>
    /\ counts = NoCounts

\* the scenario of spec section 8 at its own scale: one column with the
\* values 0, 1, 2, 3, weight 1.0, window size 2
ScenarioData == [r \in 1..4 |-> <<(r - 1) * GridPerUnit>>]
ScenarioWindow == 2 * GridPerUnit
IsScenario ==
    /\ data = ScenarioData
    /\ ncols = 1
    /\ weights = <<1>>
    /\ window_size = ScenarioWindow

\* every valid input within the bounds, and the scenario
Init ==
    /\ \/ /\ \E R \in 1..MaxCells, C \in ColumnCounts :
                /\ R * C <= MaxCells
                /\ data \in [1..R -> [1..C -> DataValues]]
                /\ ncols = C
                /\ weights \in [1..C -> WeightValues]
          /\ window_size \in WindowSizes
       \/ IsScenario
    /\ TypeStart

\* every input within the bounds, valid or not
InitAny ==
    /\ \E R \in 0..AnyMaxRows, C \in 1..AnyMaxCols :
          /\ data \in [1..R -> [1..C -> 0..AnyMaxValue]]
          /\ ncols = C
    /\ weights \in SeqsUpTo(-1..1, AnyMaxLen)
    /\ window_size \in -1..1
    /\ TypeStart

(* ------------------------------ the actions --------------------------- *)
\* The three statements of construct_net (lines 143-145), one action each.

\* G = create_network(data, weights, window_size).  When the call raises, pc
\* is "raised" and G keeps the graph as it was at the raise.
CreateNetwork ==
    /\ pc = "start"
    /\ LET r == create_network(data, ncols, weights, window_size)
       IN  /\ G' = r.G
           /\ pc' = IF r.raised THEN "raised" ELSE "built"
    /\ UNCHANGED <<data, ncols, weights, window_size, G_pruned, log, counts>>

\* show_node_counts(G)
ShowNodeCounts ==
    /\ pc = "built"
    /\ counts' = show_node_counts(G)
    /\ pc' = "counted"
    /\ UNCHANGED <<data, ncols, weights, window_size, G, G_pruned, log>>

\* G_pruned = prune_markers_minimal(G); return G_pruned
PruneMarkersMinimal ==
    /\ pc = "counted"
    /\ LET r == prune_markers_minimal(G)
       IN  /\ G_pruned' = r.G
           /\ log' = r.log
    /\ pc' = "pruned"
    /\ UNCHANGED <<data, ncols, weights, window_size, G, counts>>

Next ==
    \/ CreateNetwork
    \/ ShowNodeCounts
    \/ PruneMarkersMinimal

Spec == Init /\ [][Next]_vars

SpecAny == InitAny /\ [][Next]_vars

(* ====================================================================== *)
(* What the claims speak of, stated from the inputs alone.                *)
(* ====================================================================== *)
Rows == 0..(NumRows(data) - 1)
Dims == 0..(ncols - 1)
Val(r, d) == data[r + 1][d + 1]
WeightOf(d) == weights[d + 1]

ColMin(d) == CHOOSE x \in {Val(r, d) : r \in Rows} : \A r \in Rows : x <= Val(r, d)
ColMax(d) == CHOOSE x \in {Val(r, d) : r \in Rows} : \A r \in Rows : x >= Val(r, d)

\* n_d = floor((max_d - min_d) / window_size) + 1
FloorBins(d) == ((ColMax(d) - ColMin(d)) \div window_size) + 1

\* m_i = min_d + i * window_size
MarkerValue(d, i) == ColMin(d) + i * window_size

\* the node of marker m_i of dimension d
MarkerNode(d, i) == MarkerName(d, MarkerValue(d, i))

\* floor((data[r][d] - min_d) / window_size)
FloorBin(r, d) == (Val(r, d) - ColMin(d)) \div window_size

NodeIds(g) == {g.nodes[i].id : i \in 1..Len(g.nodes)}
IsMarker(n) == n[1] = "marker"
MarkerIds(g, d) == {n \in NodeIds(g) : IsMarker(n) /\ n[2] = d}
EdgeIdx(g) == 1..Len(g.edges)
Ends(e) == {e.u, e.v}

\* edges between two markers, and edges between a row and a marker
ChainEdges(g) == {i \in EdgeIdx(g) : IsMarker(g.edges[i].u) /\ IsMarker(g.edges[i].v)}
AssignEdges(g) ==
    {i \in EdgeIdx(g) : IsInt(g.edges[i].u) # IsInt(g.edges[i].v)}

\* the sum of f[x] over x in S
RECURSIVE SumOver(_, _)
SumOver(S, f) ==
    IF S = {} THEN 0
    ELSE LET x == CHOOSE y \in S : TRUE IN f[x] + SumOver(S \ {x}, f)

(* ---------------------------------------------------------------------- *)
(* C1: create_network rejects every input that violates its preconditions *)
(* (no rows, a weight vector whose length is not the number of columns, a *)
(* window size <= 0, a weight <= 0) with an error raised before any node  *)
(* or edge is added.                                                      *)
(* ---------------------------------------------------------------------- *)
C1_InvalidInputRejected ==
    (pc # "start" /\ ~ValidInput) => (pc = "raised" /\ G = EmptyGraph)

(* ---------------------------------------------------------------------- *)
(* C2: for every valid input the reduced graph has exactly the row        *)
(* indices 0..R-1 as its nodes: every data-row node of the expanded graph *)
(* is there, no marker node is, every edge joins two row indices, and the *)
(* node count is R.                                                       *)
(* ---------------------------------------------------------------------- *)
C2_ReducedNodesAreRows ==
    pc = "pruned" =>
        /\ NodeIds(G_pruned) = {RowNode(r) : r \in Rows}
        /\ Len(G_pruned.nodes) = NumRows(data)
        /\ \A n \in NodeIds(G) : IsInt(n) => n \in NodeIds(G_pruned)
        /\ \A i \in EdgeIdx(G_pruned) :
              Ends(G_pruned.edges[i]) \subseteq {RowNode(r) : r \in Rows}

C2_Witness ==
    /\ pc = "pruned"
    /\ NumRows(data) >= 3
    /\ \E n \in NodeIds(G) : IsMarker(n)
    /\ Len(G_pruned.edges) >= 2

(* ---------------------------------------------------------------------- *)
(* C3: for every valid input the expanded graph has R + sum_d (n_d + 1)   *)
(* nodes, sum_d n_d chain edges and R * D assignment edges; the n_d + 1   *)
(* markers of a dimension are pairwise distinct nodes.                    *)
(* ---------------------------------------------------------------------- *)
C3_ExpandedCounts ==
    pc = "built" =>
        LET bins == [d \in Dims |-> FloorBins(d)]
            bins1 == [d \in Dims |-> FloorBins(d) + 1]
        IN  /\ Len(G.nodes) = NumRows(data) + SumOver(Dims, bins1)
            /\ Cardinality(ChainEdges(G)) = SumOver(Dims, bins)
            /\ Cardinality(AssignEdges(G)) = NumRows(data) * ncols
            /\ \A d \in Dims : \A i, j \in 0..FloorBins(d) :
                  i # j => MarkerNode(d, i) # MarkerNode(d, j)

(* ---------------------------------------------------------------------- *)
(* C4: for every dimension d of a valid input create_network makes the    *)
(* markers m_i = min_d + i * window_size, i = 0..n_d, with                *)
(* n_d = floor((max_d - min_d) / window_size) + 1 >= 1; when max_d = min_d*)
(* n_d = 1 and there is one chain edge; each chain edge m_i -- m_(i+1)    *)
(* carries weights[d].                                                    *)
(* ---------------------------------------------------------------------- *)
C4_MarkersAndChain ==
    pc = "built" =>
        \A d \in Dims :
            LET n == FloorBins(d)
                chain == {i \in ChainEdges(G) : G.edges[i].u[2] = d}
                made == Markers(MinOf(data, d), window_size,
                                BinCount(MaxOf(data, d), MinOf(data, d),
                                         window_size))
            IN  /\ n >= 1
                /\ made = [k \in 1..(n + 1) |-> MarkerValue(d, k - 1)]
                /\ (ColMax(d) = ColMin(d)) =>
                       (n = 1 /\ Len(made) = 2 /\ Cardinality(chain) = 1)
                /\ MarkerIds(G, d) = {MarkerNode(d, i) : i \in 0..n}
                /\ \A i \in 1..Len(G.nodes) :
                      (G.nodes[i].attrs.marker /\ G.nodes[i].attrs.dim = d) =>
                          /\ G.nodes[i].attrs.value \in
                                 {MarkerValue(d, k) : k \in 0..n}
                          /\ G.nodes[i].id =
                                 MarkerName(d, G.nodes[i].attrs.value)
                /\ {Ends(G.edges[i]) : i \in chain} =
                       {{MarkerNode(d, i), MarkerNode(d, i + 1)} : i \in 0..(n - 1)}
                /\ \A i \in chain : G.edges[i].weight = WeightOf(d)

C4_Witness ==
    /\ pc = "built"
    /\ NumRows(data) >= 2
    /\ \E d \in Dims : ColMax(d) = ColMin(d)
    /\ \E d \in Dims : FloorBins(d) >= 3

(* ---------------------------------------------------------------------- *)
(* C5: in the expanded graph every data row r has, for every dimension d, *)
(* exactly one assignment edge; it goes to marker m_i of dimension d with *)
(* i = floor((data[r][d] - min_d) / window_size), 0 <= i <= n_d, and has  *)
(* weight weights[d]; no edge joins two data rows.                        *)
(* ---------------------------------------------------------------------- *)
C5_OneAssignmentPerDimension ==
    pc = "built" =>
        /\ \A r \in Rows, d \in Dims :
              LET mine == {i \in EdgeIdx(G) :
                              /\ RowNode(r) \in Ends(G.edges[i])
                              /\ \E n \in Ends(G.edges[i]) :
                                    IsMarker(n) /\ n[2] = d}
                  i == FloorBin(r, d)
              IN  /\ Cardinality(mine) = 1
                  /\ i \in 0..FloorBins(d)
                  /\ \A e \in mine :
                        /\ Ends(G.edges[e]) = {RowNode(r), MarkerNode(d, i)}
                        /\ G.edges[e].weight = WeightOf(d)
        /\ \A i \in EdgeIdx(G) : ~(IsInt(G.edges[i].u) /\ IsInt(G.edges[i].v))

C5_Witness ==
    /\ pc = "built"
    /\ ncols = 2
    /\ WeightOf(0) # WeightOf(1)
    /\ \E r \in Rows : FloorBin(r, 0) >= 1 /\ FloorBin(r, 1) = 0

(* ---------------------------------------------------------------------- *)
(* The accumulations of the collapser, read from log.                     *)
(* ---------------------------------------------------------------------- *)
LogIdx == 1..Len(log)
LogWeight == [k \in LogIdx |-> log[k].weight]

\* the rows assigned to marker node m, in ascending row index
RowsAt(m) == {r \in Rows : HasEdge(G, RowNode(r), m)}

RECURSIVE Ascending(_)
Ascending(S) ==
    IF S = {} THEN <<>>
    ELSE LET x == CHOOSE y \in S : \A z \in S : y <= z
         IN  <<x>> \o Ascending(S \ {x})

\* the ring steps logged for marker node m, in the order they were made
RingLog(m) ==
    LET of_m(e) == e.kind = "ring" /\ e.marker = m IN SelectSeq(log, of_m)

\* what dimension d adds to the edges at row r
Contribution(r, d) ==
    SumOver({k \in LogIdx : log[k].dim = d /\ RowNode(r) \in Ends(log[k])},
            LogWeight)

(* ---------------------------------------------------------------------- *)
(* C6: the reduced graph holds at most one edge per unordered pair of     *)
(* rows (self-loops included), and its weight is the sum of the weights   *)
(* of all ring and bridge steps, of all markers of all dimensions, on     *)
(* that pair: a later step adds to the stored weight, never replaces it.  *)
(* ---------------------------------------------------------------------- *)
C6_WeightsAccumulate ==
    pc = "pruned" =>
        /\ \A i, j \in EdgeIdx(G_pruned) :
              i # j => Ends(G_pruned.edges[i]) # Ends(G_pruned.edges[j])
        /\ \A i \in EdgeIdx(G_pruned) :
              G_pruned.edges[i].weight =
                  SumOver({k \in LogIdx : Ends(log[k]) = Ends(G_pruned.edges[i])},
                          LogWeight)
        /\ \A k \in LogIdx : HasEdge(G_pruned, log[k].u, log[k].v)

C6_Witness ==
    /\ pc = "pruned"
    /\ \E i \in EdgeIdx(G_pruned) :
          LET on == {k \in LogIdx : Ends(log[k]) = Ends(G_pruned.edges[i])}
          IN  /\ \E k \in on : log[k].kind = "ring"
              /\ \E k \in on : log[k].kind = "bridge"
              /\ \E k, l \in on : log[k].dim # log[l].dim
              /\ Cardinality(on) >= 3

(* ---------------------------------------------------------------------- *)
(* C7: for a valid input in which some dimension has no empty bin between *)
(* two populated bins, the reduced graph is connected: every pair of rows *)
(* is joined by a path of its edges.                                      *)
(* ---------------------------------------------------------------------- *)
Populated(d, b) == \E r \in Rows : FloorBin(r, d) = b

NoGap(d) ==
    \A a, b, c \in 0..FloorBins(d) :
        (a < b /\ b < c /\ Populated(d, a) /\ Populated(d, c)) => Populated(d, b)

RECURSIVE Reach(_, _)
Reach(g, S) ==
    LET T == S \cup {n \in NodeIds(g) :
                        \E i \in EdgeIdx(g) :
                            /\ n \in Ends(g.edges[i])
                            /\ Ends(g.edges[i]) \cap S # {}}
    IN  IF T = S THEN S ELSE Reach(g, T)

Connected(g) == \A n \in NodeIds(g) : Reach(g, {n}) = NodeIds(g)

C7_NoGapConnected ==
    (pc = "pruned" /\ \E d \in Dims : NoGap(d)) => Connected(G_pruned)

C7_Witness ==
    /\ pc = "pruned"
    /\ NumRows(data) >= 3
    /\ \E d \in Dims :
          /\ NoGap(d)
          /\ Cardinality({b \in 0..FloorBins(d) : Populated(d, b)}) >= 3
    /\ Connected(G_pruned)

(* ---------------------------------------------------------------------- *)
(* C8: for every row r and dimension d, what dimension d adds to the      *)
(* reduced-graph edges at r (ring steps plus bridge steps) is at most     *)
(* 2 * weights[d].                                                        *)
(* ---------------------------------------------------------------------- *)
C8_AtMostTwiceWeight ==
    pc = "pruned" =>
        \A r \in Rows, d \in Dims : Contribution(r, d) <= 2 * WeightOf(d)

\* C8 as amended: at most 4 * weights[d], two ring steps and two bridge steps
\* (one from the ring before, one to the ring after).
C8_AtMostFourTimesWeight ==
    pc = "pruned" =>
        \A r \in Rows, d \in Dims :
            LET at_r == {k \in LogIdx : log[k].dim = d /\ RowNode(r) \in Ends(log[k])}
            IN  /\ Contribution(r, d) <= 4 * WeightOf(d)
                /\ Cardinality({k \in at_r : log[k].kind = "ring"}) <= 2
                /\ Cardinality({k \in at_r : log[k].kind = "bridge"}) <= 2

C8_Witness ==
    /\ pc = "pruned"
    /\ \E r \in Rows, d \in Dims : Contribution(r, d) = 4 * WeightOf(d)

(* ---------------------------------------------------------------------- *)
(* C9: a row whose value in dimension d is the maximum max_d is assigned  *)
(* to the last marker of the dimension, the one with index n_d, and the   *)
(* bin index is never outside 0..n_d.                                     *)
(* ---------------------------------------------------------------------- *)
C9_MaxRowAtLastMarker ==
    pc = "built" =>
        \A d \in Dims, r \in Rows :
            /\ FloorBin(r, d) \in 0..FloorBins(d)
            /\ Val(r, d) = ColMax(d) =>
                   HasEdge(G, RowNode(r), MarkerNode(d, FloorBins(d)))

\* C9 as amended: such a row is assigned to the marker with index n_d - 1, the
\* last but one, and the bin index is never outside 0..n_d.
C9_MaxRowAtLastButOneMarker ==
    pc = "built" =>
        \A d \in Dims, r \in Rows :
            /\ FloorBin(r, d) \in 0..FloorBins(d)
            /\ Val(r, d) = ColMax(d) =>
                   \A n \in MarkerIds(G, d) :
                       HasEdge(G, RowNode(r), n) <=>
                           n = MarkerNode(d, FloorBins(d) - 1)

C9_Witness ==
    /\ pc = "built"
    /\ \E d \in Dims, r \in Rows :
          /\ Val(r, d) = ColMax(d)
          /\ ColMax(d) > ColMin(d)
          /\ MarkerNode(d, FloorBins(d)) # MarkerNode(d, FloorBins(d) - 1)
          /\ ~HasEdge(G, RowNode(r), MarkerNode(d, FloorBins(d)))

(* ---------------------------------------------------------------------- *)
(* C10: for every marker whose row-neighbour list N (ascending row index) *)
(* is not empty the collapser makes exactly |N| accumulations, step k     *)
(* adding the dimension weight w to the edge {N[k], N[(k+1) mod |N|]}:    *)
(* a self-loop carrying w when |N| = 1, one edge carrying 2w when         *)
(* |N| = 2, a cycle of |N| distinct edges carrying w each when |N| >= 3.  *)
(* ---------------------------------------------------------------------- *)
C10_RingSteps ==
    pc = "pruned" =>
        \A d \in Dims : \A m \in MarkerIds(G, d) :
            LET N == Ascending(RowsAt(m))
                ring == RingLog(m)
                pairs == {Ends(ring[k]) : k \in 1..Len(ring)}
                from_m(p) == SumOver({k \in LogIdx :
                                         /\ log[k].kind = "ring"
                                         /\ log[k].marker = m
                                         /\ Ends(log[k]) = p}, LogWeight)
            IN  N # <<>> =>
                  /\ Len(ring) = Len(N)
                  /\ \A k \in 1..Len(N) :
                        /\ ring[k].u = RowNode(N[k])
                        /\ ring[k].v = RowNode(N[(k % Len(N)) + 1])
                        /\ ring[k].weight = WeightOf(d)
                        /\ ring[k].dim = d
                  /\ Len(N) = 1 =>
                        /\ pairs = {{RowNode(N[1])}}
                        /\ from_m({RowNode(N[1])}) = WeightOf(d)
                  /\ Len(N) = 2 =>
                        /\ pairs = {{RowNode(N[1]), RowNode(N[2])}}
                        /\ from_m({RowNode(N[1]), RowNode(N[2])}) = 2 * WeightOf(d)
                  /\ Len(N) >= 3 =>
                        /\ Cardinality(pairs) = Len(N)
                        /\ \A p \in pairs : from_m(p) = WeightOf(d)
                  /\ \A p \in pairs :
                        \E i \in EdgeIdx(G_pruned) :
                            /\ Ends(G_pruned.edges[i]) = p
                            /\ G_pruned.edges[i].weight >= from_m(p)

C10_Witness ==
    /\ pc = "pruned"
    /\ \E d \in Dims : \E m1, m2 \in MarkerIds(G, d) :
          /\ Cardinality(RowsAt(m1)) >= 3
          /\ Cardinality(RowsAt(m2)) = 1
    /\ Len(log) >= 5

(* ---------------------------------------------------------------------- *)
(* The markers as the collapser sees them: the marker nodes of the        *)
(* expanded graph, per dimension, in ascending order of their value.      *)
(* ---------------------------------------------------------------------- *)
ValueOf(m) == G.nodes[NodeAt(G, m)].attrs.value

MarkerOrder(d) ==
    LET S == MarkerIds(G, d)
        vs == Ascending({ValueOf(m) : m \in S})
    IN  [k \in 1..Len(vs) |-> CHOOSE m \in S : ValueOf(m) = vs[k]]

\* the bridge steps logged for marker node m
BridgeLog(m) ==
    LET of_m(e) == e.kind = "bridge" /\ e.marker = m IN SelectSeq(log, of_m)

\* the edges of the reduced graph, each as <<its two ends, its weight>>
WeightedEdges(g) == {<<Ends(g.edges[i]), g.edges[i].weight>> : i \in EdgeIdx(g)}

(* ---------------------------------------------------------------------- *)
(* C11: for every pair of consecutive markers m_i, m_(i+1) of a dimension *)
(* (ascending value) the collapser adds the dimension weight w exactly    *)
(* once to the edge {N_i[0], N_(i+1)[0]} if and only if both neighbour    *)
(* lists are non-empty, N_i[0] being the smallest row index at m_i; the   *)
(* dimension makes no other edge between the two rings.  On data          *)
(* [0,1,2,3], weight [1.0], window 2 the reduced graph is exactly         *)
(* {(0,1): 2.0, (2,3): 2.0, (0,2): 1.0}.                                  *)
(* ---------------------------------------------------------------------- *)
C11_OneBridgePerPopulatedPair ==
    pc = "pruned" =>
        /\ \A d \in Dims :
              LET ms == MarkerOrder(d)
              IN  \A k \in 1..Len(ms) :
                      LET here == RowsAt(ms[k])
                          next == IF k < Len(ms) THEN RowsAt(ms[k + 1]) ELSE {}
                          b == BridgeLog(ms[k])
                          across == {l \in LogIdx :
                                        /\ log[l].dim = d
                                        /\ \E x \in here, y \in next :
                                              Ends(log[l]) = {RowNode(x), RowNode(y)}}
                      IN  IF here # {} /\ next # {}
                          THEN /\ Len(b) = 1
                               /\ b[1].u = RowNode(Ascending(here)[1])
                               /\ b[1].v = RowNode(Ascending(next)[1])
                               /\ b[1].weight = WeightOf(d)
                               /\ b[1].dim = d
                               /\ \A l \in across :
                                     log[l].kind = "bridge" /\ log[l].marker = ms[k]
                               /\ Cardinality(across) = 1
                               /\ HasEdge(G_pruned, b[1].u, b[1].v)
                          ELSE Len(b) = 0 /\ across = {}
        /\ IsScenario =>
              WeightedEdges(G_pruned) =
                  {<<{RowNode(0), RowNode(1)}, 2>>,
                   <<{RowNode(2), RowNode(3)}, 2>>,
                   <<{RowNode(0), RowNode(2)}, 1>>}

C11_Witness ==
    /\ pc = "pruned"
    /\ IsScenario
    /\ Len(BridgeLog(MarkerNode(0, 0))) = 1
    /\ Len(BridgeLog(MarkerNode(0, 1))) = 0

\* the rows whose value falls in bin b of dimension d
RowsInBin(d, b) == {r \in Rows : FloorBin(r, d) = b}

\* bins a < c hold rows and every bin between them, at least one, holds none
GapBetween(d, a, c) ==
    /\ a + 1 < c
    /\ Populated(d, a)
    /\ Populated(d, c)
    /\ \A b \in (a + 1)..(c - 1) : ~Populated(d, b)

\* the rows of S are joined in a ring in ascending row order
Ringed(S) ==
    LET N == Ascending(S)
    IN  \A i \in 1..Len(N) :
            HasEdge(G_pruned, RowNode(N[i]), RowNode(N[(i % Len(N)) + 1]))

(* ---------------------------------------------------------------------- *)
(* C12: a marker with no data-row neighbours is skipped entirely: it      *)
(* produces no ring edge and no bridge edge in either direction.  So for  *)
(* a single-dimension input where an empty bin lies between two populated *)
(* bins, the reduced graph has no edge between any row of the bin before  *)
(* the gap and any row of the bin after it, while each populated bin is   *)
(* still internally ringed.                                               *)
(* ---------------------------------------------------------------------- *)
C12_EmptyMarkerSkipped ==
    pc = "pruned" =>
        /\ \A d \in Dims :
              LET ms == MarkerOrder(d)
              IN  \A k \in 1..Len(ms) :
                      RowsAt(ms[k]) = {} =>
                          /\ RingLog(ms[k]) = <<>>
                          /\ BridgeLog(ms[k]) = <<>>
                          /\ k > 1 => BridgeLog(ms[k - 1]) = <<>>
        /\ ncols = 1 =>
              /\ \A a, c \in 0..FloorBins(0) :
                    GapBetween(0, a, c) =>
                        \A x \in RowsInBin(0, a), y \in RowsInBin(0, c) :
                            ~HasEdge(G_pruned, RowNode(x), RowNode(y))
              /\ \A b \in 0..FloorBins(0) : Ringed(RowsInBin(0, b))

\* the bridge steps that end at a row of marker node m
BridgesInto(m) ==
    {l \in LogIdx : log[l].kind = "bridge" /\ \E r \in RowsAt(m) : log[l].v = RowNode(r)}

(* ---------------------------------------------------------------------- *)
(* C13: for every valid input and every dimension d no row is assigned to *)
(* the last marker m_(n_d) built by create_network (every row's bin index *)
(* is at most n_d - 1), so in the collapser the last marker of each       *)
(* dimension has an empty neighbour list, is skipped, and never receives  *)
(* a bridge edge.                                                         *)
(* ---------------------------------------------------------------------- *)
C13_LastMarkerEmpty ==
    pc = "pruned" =>
        \A d \in Dims :
            LET last == MarkerNode(d, FloorBins(d))
                ms == MarkerOrder(d)
            IN  /\ \A r \in Rows : FloorBin(r, d) <= FloorBins(d) - 1
                /\ ms[Len(ms)] = last
                /\ RowsAt(last) = {}
                /\ RingLog(last) = <<>>
                /\ BridgeLog(last) = <<>>
                /\ BridgesInto(last) = {}
                /\ Len(ms) > 1 => BridgeLog(ms[Len(ms) - 1]) = <<>>

\* the sum of the weights of all edges of g
TotalWeight(g) == SumOver(EdgeIdx(g), [i \in EdgeIdx(g) |-> g.edges[i].weight])

\* B_d: the pairs of consecutive markers of dimension d that both have rows
BridgePairs(d) ==
    LET ms == MarkerOrder(d)
    IN  Cardinality({k \in 1..(Len(ms) - 1) :
                        RowsAt(ms[k]) # {} /\ RowsAt(ms[k + 1]) # {}})

\* the steps of one kind logged for dimension d
StepsOf(kind, d) == {l \in LogIdx : log[l].kind = kind /\ log[l].dim = d}

(* ---------------------------------------------------------------------- *)
(* C14: for every valid input the sum of the weights of all edges of the  *)
(* reduced graph returned by construct_net is the sum over the dimensions *)
(* d of weights[d] * (R + B_d), B_d being the number of pairs of          *)
(* consecutive markers of dimension d that both have at least one         *)
(* assigned row: each row makes exactly one ring step per dimension, each *)
(* adjacent populated pair exactly one bridge step, and accumulation      *)
(* neither loses nor double-counts weight.  The markers are the marker    *)
(* nodes of the expanded graph, as the collapser reads them.              *)
(* ---------------------------------------------------------------------- *)
C14_TotalWeight ==
    pc = "pruned" =>
        /\ TotalWeight(G_pruned) =
               SumOver(Dims, [d \in Dims |->
                                 WeightOf(d) * (NumRows(data) + BridgePairs(d))])
        /\ \A d \in Dims :
              /\ \A r \in Rows :
                    Cardinality({l \in StepsOf("ring", d) :
                                    log[l].u = RowNode(r)}) = 1
              /\ Cardinality(StepsOf("ring", d)) = NumRows(data)
              /\ Cardinality(StepsOf("bridge", d)) = BridgePairs(d)
        /\ TotalWeight(G_pruned) = SumOver(LogIdx, LogWeight)

C14_Witness ==
    /\ pc = "pruned"
    /\ ncols = 2
    /\ BridgePairs(0) >= 1
    /\ BridgePairs(1) = 0
    /\ Len(log) > Len(G_pruned.edges)
    /\ TotalWeight(G_pruned) =
           WeightOf(0) * (NumRows(data) + BridgePairs(0))
               + WeightOf(1) * NumRows(data)

====
